---------------------------- MODULE Spec2Model ----------------------------
(***************************************************************************)
(* Model of s3_hrwsi_downloader.py: the HRWSIRequest query engine          *)
(* (build_query, execute_request) and download executor (download,         *)
(* download_from_s3), driven by main().                                    *)
(*                                                                         *)
(* Text is modelled as a sequence of one-character strings, so that the    *)
(* catalogue's lexicographic key order, prefix matching, os.path.dirname   *)
(* and the formatting of the markers are computed as the code computes     *)
(* them.                                                                   *)
(***************************************************************************)
EXTENDS Integers, Sequences, FiniteSets, TLC

(***************************************************************************)
(* Bounds of the model.                                                    *)
(***************************************************************************)
MaxTiles == 2        \* longest -tiles list given on the command line
MaxTypes == 2        \* longest -productType list given on the command line
MaxFileLines == 2    \* longest hand-written query file (besides the big ones)
MaxTileLen == 6      \* longest text tried as one tile identifier

(***************************************************************************)
(* Characters and strings.                                                 *)
(***************************************************************************)
\* The characters used, in ascending code-point order (a subset of ASCII).
Alphabet ==
  << "\n", " ", "-", "/",
     "0", "1", "2", "3", "4", "5", "6", "7", "8", "9",
     "A", "B", "C", "D", "E", "F", "G", "H", "I", "J", "K", "L", "M",
     "N", "O", "P", "Q", "R", "S", "T", "U", "V", "W", "X", "Y", "Z",
     "_",
     "a", "b", "c", "d", "e", "f", "g", "h", "i", "j", "k", "l", "m",
     "n", "o", "p", "q", "r", "s", "t", "u", "v", "w", "x", "y", "z" >>

\* the rank of each character in that order
Rank == [c \in {Alphabet[i] : i \in 1..Len(Alphabet)} |->
           CHOOSE i \in 1..Len(Alphabet) : Alphabet[i] = c]

Ord(c) == Rank[c]

Digits == {"0", "1", "2", "3", "4", "5", "6", "7", "8", "9"}

UpperLetters ==
  {"A", "B", "C", "D", "E", "F", "G", "H", "I", "J", "K", "L", "M",
   "N", "O", "P", "Q", "R", "S", "T", "U", "V", "W", "X", "Y", "Z"}

LowerLetters == {Alphabet[i] : i \in Ord("a")..Ord("z")}

Whitespace == {"\n", " "}

DigitVal(c) == Ord(c) - Ord("0")

DigitChar(n) == Alphabet[Ord("0") + n]

\* str.upper(), one character
UpperChar(c) == IF c \in LowerLetters THEN Alphabet[Ord(c) - Ord("a") + Ord("A")] ELSE c

\* str.upper()
Upper(s) == [i \in 1..Len(s) |-> UpperChar(s[i])]

\* a < b in the byte order the object store lists keys in
StrLess(a, b) ==
  \E i \in 1..Len(b) :
     /\ i - 1 <= Len(a)
     /\ SubSeq(a, 1, i - 1) = SubSeq(b, 1, i - 1)
     /\ \/ i = Len(a) + 1
        \/ i <= Len(a) /\ Ord(a[i]) < Ord(b[i])

\* s.startswith(p)
StartsWith(s, p) == Len(p) <= Len(s) /\ SubSeq(s, 1, Len(p)) = p

\* index of the last "/" of s, 0 when there is none
LastSlash(s) ==
  LET at == {i \in 1..Len(s) : s[i] = "/"}
  IN  IF at = {} THEN 0 ELSE CHOOSE i \in at : \A j \in at : j <= i

\* s.rstrip("/")
RECURSIVE RStripSlash(_)
RStripSlash(s) ==
  IF s # <<>> /\ s[Len(s)] = "/" THEN RStripSlash(SubSeq(s, 1, Len(s) - 1)) ELSE s

\* os.path.dirname (posixpath): the head up to the last "/", its trailing
\* slashes dropped unless it consists of slashes only
dirname(p) ==
  LET head == SubSeq(p, 1, LastSlash(p))
  IN  IF head # <<>> /\ (\E i \in 1..Len(head) : head[i] # "/")
      THEN RStripSlash(head) ELSE head

\* os.path.basename (posixpath): what follows the last "/"
basename(p) == SubSeq(p, LastSlash(p) + 1, Len(p))

\* str.lstrip(), str.rstrip() and str.strip(): whitespace removed at the ends
RECURSIVE lstrip(_)
lstrip(s) == IF s # <<>> /\ s[1] \in Whitespace THEN lstrip(Tail(s)) ELSE s

RECURSIVE rstrip(_)
rstrip(s) ==
  IF s # <<>> /\ s[Len(s)] \in Whitespace THEN rstrip(SubSeq(s, 1, Len(s) - 1)) ELSE s

strip(s) == lstrip(rstrip(s))

\* str(n) for n >= 0: decimal digits, no padding
RECURSIVE IntToStr(_)
IntToStr(n) == IF n < 10 THEN <<DigitChar(n)>> ELSE IntToStr(n \div 10) \o <<DigitChar(n % 10)>>

\* strftime('%m') and strftime('%d'): two digits, zero padded
Pad2(n) == <<DigitChar(n \div 10), DigitChar(n % 10)>>

\* int() of a string of digits
RECURSIVE StrToInt(_)
StrToInt(s) == IF s = <<>> THEN 0 ELSE 10 * StrToInt(SubSeq(s, 1, Len(s) - 1)) + DigitVal(s[Len(s)])

AllDigits(s) == \A i \in 1..Len(s) : s[i] \in Digits

\* "a/b/c" from <<a, b, c>>
RECURSIVE JoinSlash(_)
JoinSlash(parts) ==
  IF Len(parts) = 1 THEN parts[1]
  ELSE parts[1] \o <<"/">> \o JoinSlash(Tail(parts))

(***************************************************************************)
(* Calendar dates (datetime.date).                                         *)
(***************************************************************************)
Date(y, m, d) == [year |-> y, month |-> m, day |-> d]

IsLeap(y) == (y % 4 = 0) /\ ((y % 100 # 0) \/ (y % 400 = 0))

DaysInMonth(y, m) ==
  IF m = 2 THEN (IF IsLeap(y) THEN 29 ELSE 28)
  ELSE IF m \in {4, 6, 9, 11} THEN 30 ELSE 31

\* datetime.date.max
MaxDate == Date(9999, 12, 31)

DateLeq(a, b) ==
  \/ a.year < b.year
  \/ a.year = b.year /\ a.month < b.month
  \/ a.year = b.year /\ a.month = b.month /\ a.day <= b.day

NoDate == Date(0, 0, 0)

\* date + datetime.timedelta(days=1); OverflowError past date.max
PlusOneDay(dt) ==
  IF dt = MaxDate THEN [err |-> "OverflowError", date |-> NoDate]
  ELSE IF dt.day < DaysInMonth(dt.year, dt.month)
       THEN [err |-> "none", date |-> Date(dt.year, dt.month, dt.day + 1)]
  ELSE IF dt.month < 12 THEN [err |-> "none", date |-> Date(dt.year, dt.month + 1, 1)]
  ELSE [err |-> "none", date |-> Date(dt.year + 1, 1, 1)]

\* datetime.datetime.strptime(s, '%Y-%m-%d'): four digits of year, one or two
\* of month and of day, nothing else; ValueError otherwise
strptime(s) ==
  LET dash == {i \in 1..Len(s) : s[i] = "-"}
      d2   == CHOOSE i \in dash : i # 5
      ys   == SubSeq(s, 1, 4)
      ms   == SubSeq(s, 6, d2 - 1)
      ds   == SubSeq(s, d2 + 1, Len(s))
  IN  IF /\ Cardinality(dash) = 2 /\ 5 \in dash
         /\ AllDigits(ys)
         /\ Len(ms) \in {1, 2} /\ AllDigits(ms) /\ StrToInt(ms) \in 1..12
         /\ Len(ds) \in {1, 2} /\ AllDigits(ds) /\ StrToInt(ds) \in 1..31
         /\ StrToInt(ys) >= 1
         /\ StrToInt(ds) <= DaysInMonth(StrToInt(ys), StrToInt(ms))
      THEN [err |-> "none", date |-> Date(StrToInt(ys), StrToInt(ms), StrToInt(ds))]
      ELSE [err |-> "ValueError", date |-> NoDate]

(***************************************************************************)
(* Process exit.                                                           *)
(***************************************************************************)
\* the argument of a sys.exit call: an int or a str
ExitInt(n) == [kind |-> "int", int |-> n, str |-> ""]

ExitStr(s) == [kind |-> "str", int |-> 0, str |-> s]

\* The exit status of the interpreter for SystemExit(arg): an int is the
\* status (the operating system keeps its low byte); any other object is
\* printed to stderr and the status is 1.
SysExitStatus(arg) == IF arg.kind = "int" THEN arg.int ELSE 1

\* An exception that reaches the top of main() ends the interpreter with 1.
UncaughtStatus == 1

(***************************************************************************)
(* The catalogue: bucket HRWSI of the object store.                        *)
(***************************************************************************)
FSC == <<"F", "S", "C">>

GFSC == <<"G", "F", "S", "C">>

NOPE == <<"N", "O", "P", "E">>

T31TCH == <<"3", "1", "T", "C", "H">>

T32TLR == <<"3", "2", "T", "L", "R">>

\* an object {productType}/{tile}/{year}/{month:2}/{day:2}/{productName}/{fileName}
Obj(pT, tile, y, m, d, name, file, size) ==
  [key  |-> JoinSlash(<<pT, tile, IntToStr(y), Pad2(m), Pad2(d), name, file>>),
   size |-> size]

\* The catalogues the runs are checked against.  The second is the one of the
\* end-to-end scenario (P1 on 02-01, P2 on 02-02, P3 on 02-04).
Catalogs ==
  << { Obj(FSC,  T31TCH, 2025, 1, 31, <<"P", "0">>,      <<"a">>, 1),
       Obj(FSC,  T31TCH, 2025, 2,  1, <<"P", "1">>,      <<"a">>, 2),
       Obj(FSC,  T31TCH, 2025, 2,  1, <<"P", "1">>,      <<"b">>, 4),
       Obj(FSC,  T31TCH, 2025, 2,  1, <<"P", "1", "0">>, <<"a">>, 8),
       Obj(FSC,  T31TCH, 2025, 2,  3, <<"P", "2">>,      <<"b">>, 16),
       Obj(FSC,  T31TCH, 2025, 2, 28, <<"P", "3">>,      <<"a">>, 32),
       Obj(FSC,  T31TCH, 2025, 3,  1, <<"P", "4">>,      <<"c">>, 64),
       Obj(FSC,  T32TLR, 2025, 2,  3, <<"P", "5">>,      <<"a">>, 128),
       Obj(GFSC, T31TCH, 2025, 2,  3, <<"P", "6">>,      <<"a">>, 256) },
     { Obj(FSC,  T31TCH, 2025, 2,  1, <<"P", "1">>,      <<"a">>, 1),
       Obj(FSC,  T31TCH, 2025, 2,  2, <<"P", "2">>,      <<"b">>, 2),
       Obj(FSC,  T31TCH, 2025, 2,  4, <<"P", "3">>,      <<"c">>, 4) } >>

\* the objects of a set, in ascending key order
RECURSIVE SortByKey(_)
SortByKey(objs) ==
  IF objs = {} THEN <<>>
  ELSE LET first == CHOOSE o \in objs : \A p \in objs : p = o \/ StrLess(o.key, p.key)
       IN  <<first>> \o SortByKey(objs \ {first})

\* Bucket(BUCKET).objects.filter(Prefix=prefix, Marker=marker) on bucket b:
\* the objects whose key starts with prefix and lies strictly after marker
\* (Matching), in ascending key order.  No Marker is the empty marker.
Matching(b, prefix, marker) ==
  {o \in b : StartsWith(o.key, prefix) /\ StrLess(marker, o.key)}

ListObjects(b, prefix, marker) == SortByKey(Matching(b, prefix, marker))

(***************************************************************************)
(* HRWSIRequest: the validators.  Each returns a value or ends the process *)
(* with sys.exit.                                                          *)
(***************************************************************************)
Ok(v) == [exit |-> FALSE, arg |-> ExitInt(0), cause |-> "", value |-> v]

Exit(arg, cause) == [exit |-> TRUE, arg |-> arg, cause |-> cause, value |-> <<>>]

\* validate_product_type: one listing of Prefix=product_type+"/", valid when
\* it yields an object; sys.exit("-2") otherwise
validate_product_type(b, product_type) ==
  IF Matching(b, product_type \o <<"/">>, <<>>) # {}
  THEN Ok(product_type)
  ELSE Exit(ExitStr("-2"), "-productType does not exist")

\* validate_dates: both dates parse and dateStart <= dateEnd; sys.exit(-2)
\* on the ValueError otherwise
validate_dates(dateStart, dateEnd) ==
  LET a == strptime(dateStart)
      b == strptime(dateEnd)
  IN  IF a.err # "none" \/ b.err # "none"
      THEN Exit(ExitInt(-2), "-dateStart or -dateEnd: bad format")
      ELSE IF ~DateLeq(a.date, b.date)
      THEN Exit(ExitInt(-2), "-dateStart is after dateEnd")
      ELSE Ok(<<dateStart, dateEnd>>)

\* re.search(r'\d{2}[A-Z]{3}', tile_text): the start of the first match, 0
\* when there is none
SearchTile(tile_text) ==
  LET at == {i \in 1..(Len(tile_text) - 4) :
               /\ tile_text[i] \in Digits /\ tile_text[i + 1] \in Digits
               /\ tile_text[i + 2] \in UpperLetters
               /\ tile_text[i + 3] \in UpperLetters
               /\ tile_text[i + 4] \in UpperLetters}
  IN  IF at = {} THEN 0 ELSE CHOOSE i \in at : \A j \in at : i <= j

\* the same function returning the whole text in place of the matched part
validate_tile_format_WholeText(tile_text) ==
  LET found == SearchTile(tile_text)
  IN  IF /\ found # 0
         /\ \/ Len(tile_text) = 6 /\ tile_text[1] = "T"
            \/ Len(tile_text) = 5
      THEN Ok(tile_text)
      ELSE Exit(ExitInt(-2), "-tile: incorrect tile format")

\* validate_tile_format: the matched text (group(0)) when the pattern is found
\* and the text has 5 characters, or 6 starting with T; sys.exit(-2) otherwise
validate_tile_format(tile_text) ==
  LET found == SearchTile(tile_text)
  IN  IF /\ found # 0
         /\ \/ Len(tile_text) = 6 /\ tile_text[1] = "T"
            \/ Len(tile_text) = 5
      THEN Ok(SubSeq(tile_text, found, found + 4))
      ELSE Exit(ExitInt(-2), "-tile: incorrect tile format")

\* validate_wkt_epsg: geo is what GeoSeries.from_wkt does with the text and
\* the EPSG code
validate_wkt_epsg(geo) ==
  IF geo = "CRSError" THEN Exit(ExitStr("-2"), "-epsg")
  ELSE IF geo = "GEOSException" THEN Exit(ExitStr("-2"), "-wkt")
  ELSE IF geo = "NotPolygon" THEN Exit(ExitStr("-2"), "-wkt: only Polygon or MultiPolygon")
  ELSE Ok(<<>>)

\* validate_MGRS_file: mgrs is what gpd.read_file does with MGRS_tiles.gpkg
validate_MGRS_file(mgrs) ==
  IF mgrs # "ok" THEN Exit(ExitStr("-2"), "mgrs file") ELSE Ok(<<>>)

\* validate_layer: layer is what gpd.read_file does with the vector file; the
\* union of its geometries then goes through validate_wkt_epsg
validate_layer(layer, geo) ==
  IF layer # "ok" THEN Exit(ExitStr("-2"), "-layer") ELSE validate_wkt_epsg(geo)

(***************************************************************************)
(* build_query, step by step                                               *)
(***************************************************************************)
\* an attribute that is None, or holds a value
None == <<>>

Some(x) == <<x>>

\* index of the first element of results that exits, 0 when none does
FirstExit(results) ==
  LET bad == {i \in 1..Len(results) : results[i].exit}
  IN  IF bad = {} THEN 0 ELSE CHOOSE i \in bad : \A j \in bad : i <= j

\* [validate_tile_format(tile).upper() for tile in tiles]
ValidateTiles(tiles) ==
  LET rs == [i \in 1..Len(tiles) |-> validate_tile_format(tiles[i])]
      k  == FirstExit(rs)
  IN  IF k # 0 THEN rs[k]
      ELSE Ok([i \in 1..Len(tiles) |-> Upper(rs[i].value)])

\* The tiles of request_params after the three selectors of build_query (main()
\* lets exactly one of -wkt, -vector and -tiles through); sel.found is what
\* find_MGRS_tiles returns for the geometry.
ResolveTiles(sel) ==
  IF sel.kind = "wkt"
  THEN IF validate_MGRS_file(sel.mgrs).exit THEN validate_MGRS_file(sel.mgrs)
       ELSE IF validate_wkt_epsg(sel.geo).exit THEN validate_wkt_epsg(sel.geo)
       ELSE Ok(sel.found)
  ELSE IF sel.kind = "vector"
  THEN IF validate_MGRS_file(sel.mgrs).exit THEN validate_MGRS_file(sel.mgrs)
       ELSE IF validate_layer(sel.layer, sel.geo).exit THEN validate_layer(sel.layer, sel.geo)
       ELSE Ok(sel.found)
  ELSE ValidateTiles(sel.tiles)

\* the same check with < written for ==: an empty list passes it
NoTilesIdentified_Less(tiles) == Len(tiles) < 0

\* len(self.request_params[TILES]) == 0
NoTilesIdentified(tiles) == Len(tiles) = 0

Range(f) == {f[i] : i \in DOMAIN f}

\* the orders list(set(tiles)) can come out in
Orderings(S) ==
  {f \in [1..Cardinality(S) -> S] : \A i, j \in 1..Cardinality(S) : f[i] = f[j] => i = j}

\* [validate_product_type(pT) for pT in productType]: the list, or the exit of
\* the first type that does not exist; calls is the number of listings issued
ValidateProductTypes(b, productType) ==
  LET rs == [i \in 1..Len(productType) |-> validate_product_type(b, productType[i])]
      k  == FirstExit(rs)
  IN  IF k # 0 THEN [result |-> rs[k], calls |-> k]
      ELSE [result |-> Ok(productType), calls |-> Len(productType)]

(***************************************************************************)
(* execute_request                                                         *)
(***************************************************************************)
\* f"{pT}/{tile}/{date.year}/{date.strftime('%m')}/{date.strftime('%d')}"
Marker(pT, tile, date) ==
  pT \o <<"/">> \o tile \o <<"/">> \o IntToStr(date.year) \o <<"/">>
     \o Pad2(date.month) \o <<"/">> \o Pad2(date.day)

\* f"{pT}/{tile}"
Prefix(pT, tile) == pT \o <<"/">> \o tile

\* [item for item in contents_to_filter if item not in contents_filter]
Difference(contents_to_filter, contents_filter) ==
  SelectSeq(contents_to_filter, LAMBDA item : item \notin Range(contents_filter))

\* the loop over contents: the product directories in order of first
\* appearance, and the sum of the sizes
RECURSIVE list_products(_)
list_products(contents) ==
  IF contents = <<>> THEN <<>>
  ELSE LET before  == list_products(SubSeq(contents, 1, Len(contents) - 1))
           product == dirname(contents[Len(contents)].key)
       IN  IF product \in Range(before) THEN before ELSE Append(before, product)

RECURSIVE size_b(_)
size_b(contents) ==
  IF contents = <<>> THEN 0 ELSE contents[1].size + size_b(Tail(contents))

\* one turn of the inner loop of execute_request: what is found for product
\* type pT and tile between the two markers
date_bounded(b, pT, tile, start_marker_date, end_marker_date) ==
  LET contents_to_filter == ListObjects(b, Prefix(pT, tile), Marker(pT, tile, start_marker_date))
      contents_filter    == ListObjects(b, Prefix(pT, tile), Marker(pT, tile, end_marker_date))
      contents           == Difference(contents_to_filter, contents_filter)
  IN  [pT |-> pT, tile |-> tile, contents |-> contents,
       list_products |-> list_products(contents), size_b |-> size_b(contents)]

\* the (pT, tile) pairs in the order of the two nested loops
Pairs(productType, tiles) ==
  [k \in 1..(Len(productType) * Len(tiles)) |->
     [pT   |-> productType[((k - 1) \div Len(tiles)) + 1],
      tile |-> tiles[((k - 1) % Len(tiles)) + 1]]]

\* total_list_products.extend(list_products) and total_size_b += size_b over
\* the pairs; turns keeps what each turn of the loop found
RECURSIVE Accumulate(_, _, _, _)
Accumulate(b, pairs, start_marker_date, end_marker_date) ==
  IF pairs = <<>> THEN [products |-> <<>>, size |-> 0, turns |-> <<>>]
  ELSE LET before == Accumulate(b, SubSeq(pairs, 1, Len(pairs) - 1),
                                start_marker_date, end_marker_date)
           found  == date_bounded(b, pairs[Len(pairs)].pT, pairs[Len(pairs)].tile,
                                  start_marker_date, end_marker_date)
       IN  [products |-> before.products \o found.list_products,
            size     |-> before.size + found.size_b,
            turns    |-> Append(before.turns, found)]

\* execute_request on bucket b for the validated parameters: the OverflowError
\* of end_date + timedelta(days=1), or the products and size found; calls is
\* the number of listings issued (two per pair)
execute_request(b, productType, tiles, start_date, end_date) ==
  LET start_marker_date == start_date
      end_marker_date   == PlusOneDay(end_date)
      found             == Accumulate(b, Pairs(productType, tiles),
                                      start_marker_date, end_marker_date.date)
  IN  IF end_marker_date.err # "none"
      THEN [err |-> end_marker_date.err, products |-> <<>>, size |-> 0, turns |-> <<>>,
            calls |-> 0]
      ELSE [err |-> "none", products |-> found.products, size |-> found.size,
            turns |-> found.turns, calls |-> 2 * Len(productType) * Len(tiles)]

\* f.writelines([res+"\n" for res in total_list_products]): the lines of the file
writelines(total_list_products) ==
  [i \in 1..Len(total_list_products) |-> total_list_products[i] \o <<"\n">>]

(***************************************************************************)
(* download and download_from_s3                                           *)
(***************************************************************************)
\* DOWNLOAD THRESHOLD ABOVE WHICH DOWNLOADS WILL NOT START
DOWNLOAD_THRESHOLD == 500

\* tries=3 of the retry decorator of download_from_s3
Tries == 3

\* the same list with the lines kept as readlines gives them, not stripped
read_product_list_Unstripped(content) ==
  SelectSeq(content, LAMBDA x : strip(x) # <<>>)

\* [x.strip() for x in content if x.strip()]
read_product_list(content) ==
  LET stripped == [i \in 1..Len(content) |-> strip(content[i])]
  IN  SelectSeq(stripped, LAMBDA x : x # <<>>)

\* the same check with >= written for >: 500 products are refused too
OverThreshold_AtLeast(product_list) == Len(product_list) >= DOWNLOAD_THRESHOLD

\* len(product_list) > HRWSIRequest.DOWNLOAD_THRESHOLD
OverThreshold(product_list) == Len(product_list) > DOWNLOAD_THRESHOLD

\* What the object store or the local file system does to one call of
\* download_from_s3: nothing, a ClientError with one of these codes, an
\* EndpointConnectionError or a FileNotFoundError.
ClientErrorCodes == {"404", "403", "503", "500"}

Faults == {"none"} \cup ClientErrorCodes \cup {"EndpointConnectionError", "FileNotFoundError"}

\* The except clauses: which exception leaves them, and the binding of the
\* local name err afterwards.  Every clause is "except ... as err" and raises
\* RuntimeError; on leaving such a clause the name err is deleted.
except_clauses(fault) ==
  IF fault \in ClientErrorCodes
  THEN [raises |-> "RuntimeError", err |-> "unbound"]
  ELSE IF fault = "EndpointConnectionError"
  THEN [raises |-> "RuntimeError", err |-> "unbound"]
  ELSE IF fault = "FileNotFoundError"
  THEN [raises |-> "RuntimeError", err |-> "unbound"]
  ELSE [raises |-> "none", err |-> "None"]

\* The finally block, entered with exception `pending` on its way out and the
\* name err unbound, None, or bound to the exception of the fault.
finally_block(err, fault, pending) ==
  IF err = "unbound"
  THEN [kind |-> "raise", exception |-> "UnboundLocalError", status |-> 0]
  ELSE IF err = "None"
  THEN IF pending = "none"
       THEN [kind |-> "return", exception |-> "none", status |-> 0]
       ELSE [kind |-> "raise", exception |-> pending, status |-> 0]
  ELSE IF fault \notin ClientErrorCodes
  THEN [kind |-> "raise", exception |-> "AttributeError", status |-> 0]
  ELSE IF fault = "404" THEN [kind |-> "exit", exception |-> "SystemExit", status |-> 12]
  ELSE IF fault = "403" THEN [kind |-> "exit", exception |-> "SystemExit", status |-> 78]
  ELSE IF fault # "503" THEN [kind |-> "exit", exception |-> "SystemExit", status |-> 1]
  ELSE [kind |-> "raise", exception |-> pending, status |-> 0]

\* One call of the body of download_from_s3 when the listing or a transfer
\* meets `fault`: it returns, raises or ends the process.
download_from_s3(fault) ==
  LET handled == except_clauses(fault)
  IN  finally_block(handled.err, fault, handled.raises)

\* @retry(EndpointConnectionError, tries=3, delay=2): call again after an
\* EndpointConnectionError while tries remain
ShouldRetry(exception, attempt) ==
  exception = "EndpointConnectionError" /\ attempt < Tries

(***************************************************************************)
(* The inputs of a run.                                                    *)
(***************************************************************************)
Modes == {"query", "query_and_download", "download"}

SeqsUpTo(S, n) == UNION {[1..k -> S] : k \in 1..n}

TileTexts ==
  { <<"T", "3", "1", "T", "C", "H">>, T31TCH, T32TLR, <<"3", "1", "t", "c", "h">> }

FoundTiles == { <<>>, <<T31TCH>>, <<T32TLR, T31TCH>> }

\* what -tiles, -wkt with -epsg, or -vector can be
Selections ==
  {[kind |-> "tiles", tiles |-> t, mgrs |-> "ok", geo |-> "ok", layer |-> "ok", found |-> <<>>] :
      t \in SeqsUpTo(TileTexts, MaxTiles)}
  \cup
  {[kind |-> k, tiles |-> <<>>, mgrs |-> "DataSourceError", geo |-> "ok", layer |-> "ok",
    found |-> <<>>] : k \in {"wkt", "vector"}}
  \cup
  {[kind |-> k, tiles |-> <<>>, mgrs |-> "ok", geo |-> g, layer |-> "ok", found |-> <<>>] :
      k \in {"wkt", "vector"}, g \in {"CRSError", "GEOSException", "NotPolygon"}}
  \cup
  {[kind |-> "vector", tiles |-> <<>>, mgrs |-> "ok", geo |-> "ok", layer |-> "DataSourceError",
    found |-> <<>>]}
  \cup
  {[kind |-> k, tiles |-> <<>>, mgrs |-> "ok", geo |-> "ok", layer |-> "ok", found |-> f] :
      k \in {"wkt", "vector"}, f \in FoundTiles}

ProductTypeLists == SeqsUpTo({FSC, GFSC, NOPE}, MaxTypes)

\* 2025-02-01, 2025-2-3, 2025-02-28, 9999-12-31, 0999-12-31 and 2025-02-30
DateTexts ==
  { <<"2", "0", "2", "5", "-", "0", "2", "-", "0", "1">>,
    <<"2", "0", "2", "5", "-", "2", "-", "3">>,
    <<"2", "0", "2", "5", "-", "0", "2", "-", "2", "8">>,
    <<"9", "9", "9", "9", "-", "1", "2", "-", "3", "1">>,
    <<"0", "9", "9", "9", "-", "1", "2", "-", "3", "1">>,
    <<"2", "0", "2", "5", "-", "0", "2", "-", "3", "0">> }

\* FSC/31TCH/2025/02/01/P1 and FSC/31TCH/2025/02/03/P2
DirP1 == JoinSlash(<<FSC, T31TCH, IntToStr(2025), Pad2(2), Pad2(1), <<"P", "1">> >>)

DirP2 == JoinSlash(<<FSC, T31TCH, IntToStr(2025), Pad2(2), Pad2(3), <<"P", "2">> >>)

\* the lines a query file given with -query_file is made of
FileLines == { DirP1 \o <<"\n">>, DirP2 \o <<" ", "\n">>, <<"\n">> }

\* a query file of n product lines
BigFile(n) == [i \in 1..n |-> IF i % 2 = 1 THEN DirP1 \o <<"\n">> ELSE DirP2 \o <<"\n">>]

\* The files -query_file can name: short ones, ones around the download
\* threshold (the last with a blank line at its end), and one that cannot be
\* read.
UserFiles ==
  {[readable |-> TRUE, lines |-> l] : l \in {<<>>} \cup SeqsUpTo(FileLines, MaxFileLines)}
  \cup
  {[readable |-> TRUE, lines |-> BigFile(DOWNLOAD_THRESHOLD)],
   [readable |-> TRUE, lines |-> BigFile(DOWNLOAD_THRESHOLD + 1)],
   [readable |-> TRUE, lines |-> Append(BigFile(DOWNLOAD_THRESHOLD), <<"\n">>)],
   [readable |-> FALSE, lines |-> <<>>]}

NoFile == [readable |-> FALSE, lines |-> <<>>]

(***************************************************************************)
(* The state of a run of main().                                           *)
(***************************************************************************)
VARIABLES
  mode,            \* -query, -query_and_download or -download
  catalog,         \* which of Catalogs the bucket holds
  pc,              \* where main() is
  request_params,  \* self.request_params
  listCalls,       \* catalogue listings issued by the query so far
  query_file,      \* self.query_file: "None", "query_file.txt" or "user"
  disk,            \* the file self.query_file names
  total,           \* total_list_products and total_size_b of execute_request, and
                   \* what each turn of its loop found
  product_list,    \* product_list of download()
  idx,             \* position of the for loop of download() in product_list
  attempt,         \* number of the coming call of download_from_s3 for this product
  hist,            \* what each call for the product at hand met
  dlLog,           \* the product_dir of every call of download_from_s3
  transferred,     \* the download_file calls that completed
  exitStatus,      \* the exit status, once pc = "exited"
  exitCause,       \* what ended the process
  tile_text,       \* the one -tiles text of a run that only resolves tiles
  resolutions      \* the tiles of request_params after each resolution of that run

vars == <<mode, catalog, pc, request_params, listCalls, query_file, disk, total,
          product_list, idx, attempt, hist, dlLog, transferred, exitStatus, exitCause,
          tile_text, resolutions>>

Bucket == Catalogs[catalog]

NoParams == [tiles |-> None, productType |-> None, start_date |-> None, end_date |-> None]

\* __init__ and set_client have run; a -download run finds the file of
\* -query_file as the user left it
Init ==
  /\ mode \in Modes
  /\ catalog \in 1..Len(Catalogs)
  /\ pc = "main"
  /\ request_params = NoParams
  /\ listCalls = 0
  /\ query_file = "None"
  /\ disk \in (IF mode = "download" THEN UserFiles ELSE {NoFile})
  /\ total = [products |-> <<>>, size |-> 0, turns |-> <<>>]
  /\ product_list = <<>>
  /\ idx = 1
  /\ attempt = 1
  /\ hist = <<>>
  /\ dlLog = <<>>
  /\ transferred = {}
  /\ exitStatus = 0
  /\ exitCause = ""
  /\ tile_text = None
  /\ resolutions = <<>>

\* the process ends with this status
Exits(status, cause) ==
  /\ pc' = "exited"
  /\ exitStatus' = status
  /\ exitCause' = cause

Running(next) ==
  /\ pc' = next
  /\ UNCHANGED <<exitStatus, exitCause>>

\* build_query up to the tiles: the selector is resolved, an empty list ends
\* the process, the tiles are deduplicated
BuildQueryTiles ==
  /\ pc = "main"
  /\ mode \in {"query", "query_and_download"}
  /\ \E sel \in Selections :
       LET r == ResolveTiles(sel)
       IN  IF r.exit
           THEN /\ Exits(SysExitStatus(r.arg), r.cause)
                /\ UNCHANGED request_params
           ELSE IF NoTilesIdentified(r.value)
           THEN /\ Exits(SysExitStatus(ExitInt(-2)), "No tiles were identified")
                /\ request_params' = [request_params EXCEPT !.tiles = Some(r.value)]
           ELSE /\ Running("product_type")
                /\ \E order \in Orderings(Range(r.value)) :
                     request_params' = [request_params EXCEPT !.tiles = Some(order)]
  /\ UNCHANGED <<mode, catalog, listCalls, query_file, disk, total, product_list, idx,
                 attempt, hist, dlLog, transferred, tile_text, resolutions>>

\* build_query: the product types are validated against the catalogue
BuildQueryProductType ==
  /\ pc = "product_type"
  /\ \E productType \in ProductTypeLists :
       LET r == ValidateProductTypes(Bucket, productType)
       IN  /\ listCalls' = listCalls + r.calls
           /\ IF r.result.exit
              THEN /\ Exits(SysExitStatus(r.result.arg), r.result.cause)
                   /\ UNCHANGED request_params
              ELSE /\ Running("dates")
                   /\ request_params' =
                        [request_params EXCEPT !.productType = Some(r.result.value)]
  /\ UNCHANGED <<mode, catalog, query_file, disk, total, product_list, idx,
                 attempt, hist, dlLog, transferred, tile_text, resolutions>>

\* build_query: the dates are validated
BuildQueryDates ==
  /\ pc = "dates"
  /\ \E dateStart \in DateTexts, dateEnd \in DateTexts :
       LET r == validate_dates(dateStart, dateEnd)
       IN  IF r.exit
           THEN /\ Exits(SysExitStatus(r.arg), r.cause)
                /\ UNCHANGED request_params
           ELSE /\ Running("built")
                /\ request_params' = [request_params EXCEPT !.start_date = Some(r.value[1]),
                                                            !.end_date = Some(r.value[2])]
  /\ UNCHANGED <<mode, catalog, listCalls, query_file, disk, total, product_list, idx,
                 attempt, hist, dlLog, transferred, tile_text, resolutions>>

\* execute_request: both listings for every pair, then the query file is
\* written; the OverflowError of the end marker is not caught anywhere
ExecuteRequest ==
  /\ pc = "built"
  /\ LET start_date == strptime(request_params.start_date[1]).date
         end_date   == strptime(request_params.end_date[1]).date
         r == execute_request(Bucket, request_params.productType[1], request_params.tiles[1],
                              start_date, end_date)
     IN  /\ listCalls' = listCalls + r.calls
         /\ IF r.err # "none"
            THEN /\ Exits(UncaughtStatus, r.err)
                 /\ UNCHANGED <<total, query_file, disk>>
            ELSE /\ Running("ready")
                 /\ total' = [products |-> r.products, size |-> r.size, turns |-> r.turns]
                 /\ query_file' = "query_file.txt"
                 /\ disk' = [readable |-> TRUE, lines |-> writelines(r.products)]
  /\ UNCHANGED <<mode, catalog, request_params, product_list, idx, attempt, hist, dlLog,
                 transferred, tile_text, resolutions>>

\* main(): hrwsi.set_query_file(args.query_file) of a -download run
SetQueryFile ==
  /\ pc = "main"
  /\ mode = "download"
  /\ query_file' = "user"
  /\ Running("ready")
  /\ UNCHANGED <<mode, catalog, request_params, listCalls, disk, total, product_list, idx,
                 attempt, hist, dlLog, transferred, tile_text, resolutions>>

\* main(): a -query run ends without downloading
NoDownload ==
  /\ pc = "ready"
  /\ mode = "query"
  /\ Exits(0, "End.")
  /\ UNCHANGED <<mode, catalog, request_params, listCalls, query_file, disk, total,
                 product_list, idx, attempt, hist, dlLog, transferred, tile_text, resolutions>>

\* download() up to its loop: the query file is read and the threshold
\* checked.  The bare raise of the threshold check raises RuntimeError.
Download ==
  /\ pc = "ready"
  /\ mode \in {"query_and_download", "download"}
  /\ IF query_file = "None"
     THEN /\ Exits(SysExitStatus(ExitInt(-2)), "No query_file was provided")
          /\ UNCHANGED product_list
     ELSE IF ~disk.readable
     THEN /\ Exits(UncaughtStatus, "Error while parsing query_file")
          /\ UNCHANGED product_list
     ELSE /\ product_list' = read_product_list(disk.lines)
          /\ IF OverThreshold(product_list')
             THEN Exits(UncaughtStatus, "Nb of products above the download threshold")
             ELSE Running("downloading")
  /\ UNCHANGED <<mode, catalog, request_params, listCalls, query_file, disk, total, idx,
                 attempt, hist, dlLog, transferred, tile_text, resolutions>>

\* the objects of the first n keys listed under product_dir, as transferred
Transfers(product_dir, objs, n) ==
  {[product_dir |-> product_dir, key |-> objs[j].key,
    path |-> <<basename(product_dir), basename(objs[j].key)>>] : j \in 1..n}

\* One call of download_from_s3 for the product at hand, under the retry
\* decorator.  The fault strikes the listing (at = 0) or transfer number at.
DownloadFromS3 ==
  /\ pc = "downloading"
  /\ idx <= Len(product_list)
  /\ LET product_dir == product_list[idx]
         objs        == ListObjects(Bucket, product_dir, <<>>)
     IN  \E fault \in Faults, at \in 0..Len(objs) :
           /\ fault = "none" => at = Len(objs)
           /\ LET r    == download_from_s3(fault)
                  done == IF fault = "none" THEN at ELSE IF at = 0 THEN 0 ELSE at - 1
              IN  /\ dlLog' = Append(dlLog, product_dir)
                  /\ hist' = IF attempt = 1 THEN <<fault>> ELSE Append(hist, fault)
                  /\ transferred' = transferred \cup Transfers(product_dir, objs, done)
                  /\ IF r.kind = "return"
                     THEN /\ idx' = idx + 1
                          /\ attempt' = 1
                          /\ Running("downloading")
                     ELSE IF r.kind = "exit"
                     THEN /\ Exits(r.status, "sys.exit in download_from_s3")
                          /\ UNCHANGED <<idx, attempt>>
                     ELSE IF ShouldRetry(r.exception, attempt)
                     THEN /\ attempt' = attempt + 1
                          /\ Running("downloading")
                          /\ UNCHANGED idx
                     ELSE /\ Exits(UncaughtStatus, r.exception)
                          /\ UNCHANGED <<idx, attempt>>
  /\ UNCHANGED <<mode, catalog, request_params, listCalls, query_file, disk, total,
                 product_list, tile_text, resolutions>>

\* main(): the loop of download() is over, "Downloading complete!"
DownloadComplete ==
  /\ pc = "downloading"
  /\ idx > Len(product_list)
  /\ Exits(0, "End.")
  /\ UNCHANGED <<mode, catalog, request_params, listCalls, query_file, disk, total,
                 product_list, idx, attempt, hist, dlLog, transferred, tile_text, resolutions>>

Next ==
  \/ BuildQueryTiles
  \/ BuildQueryProductType
  \/ BuildQueryDates
  \/ ExecuteRequest
  \/ SetQueryFile
  \/ NoDownload
  \/ Download
  \/ DownloadFromS3
  \/ DownloadComplete

Spec == Init /\ [][Next]_vars

(***************************************************************************)
(* A run that only resolves one -tiles text: the tiles part of             *)
(* build_query applied to the text, then to its own result.                *)
(***************************************************************************)
\* the characters the texts are made of: a digit, the prefix letter, another
\* capital and a small letter
TileAlphabet == {"3", "T", "H", "h"}

\* every text of 4 to MaxTileLen such characters
TileInputs == UNION {[1..n -> TileAlphabet] : n \in 4..MaxTileLen}

TileInit ==
  /\ mode = "query"
  /\ catalog = 1
  /\ pc = "main"
  /\ request_params = NoParams
  /\ listCalls = 0
  /\ query_file = "None"
  /\ disk = NoFile
  /\ total = [products |-> <<>>, size |-> 0, turns |-> <<>>]
  /\ product_list = <<>>
  /\ idx = 1
  /\ attempt = 1
  /\ hist = <<>>
  /\ dlLog = <<>>
  /\ transferred = {}
  /\ exitStatus = 0
  /\ exitCause = ""
  /\ tile_text \in TileInputs
  /\ resolutions = <<>>

\* build_query(tiles=tiles) up to the deduplicated tiles of request_params
ResolveOnce(tiles) ==
  LET r == ResolveTiles([kind |-> "tiles", tiles |-> tiles, mgrs |-> "ok", geo |-> "ok",
                         layer |-> "ok", found |-> <<>>])
  IN  IF r.exit
      THEN /\ Exits(SysExitStatus(r.arg), r.cause)
           /\ UNCHANGED <<request_params, resolutions>>
      ELSE IF NoTilesIdentified(r.value)
      THEN /\ Exits(SysExitStatus(ExitInt(-2)), "No tiles were identified")
           /\ request_params' = [request_params EXCEPT !.tiles = Some(r.value)]
           /\ UNCHANGED resolutions
      ELSE /\ Running("resolved")
           /\ \E order \in Orderings(Range(r.value)) :
                /\ request_params' = [request_params EXCEPT !.tiles = Some(order)]
                /\ resolutions' = Append(resolutions, order)

\* the text is resolved as the singleton -tiles list
ResolveTile ==
  /\ pc = "main"
  /\ resolutions = <<>>
  /\ ResolveOnce(<<tile_text>>)
  /\ UNCHANGED <<mode, catalog, listCalls, query_file, disk, total, product_list, idx,
                 attempt, hist, dlLog, transferred, tile_text>>

\* the resolved tiles are given as the -tiles list of a second resolution
ResolveAgain ==
  /\ pc = "resolved"
  /\ Len(resolutions) = 1
  /\ ResolveOnce(resolutions[1])
  /\ UNCHANGED <<mode, catalog, listCalls, query_file, disk, total, product_list, idx,
                 attempt, hist, dlLog, transferred, tile_text>>

TileNext ==
  \/ ResolveTile
  \/ ResolveAgain

TileSpec == TileInit /\ [][TileNext]_vars

(***************************************************************************)
(* What the claims speak of.                                               *)
(***************************************************************************)
\* the segments of a key
RECURSIVE Split(_)
Split(s) ==
  LET at == {i \in 1..Len(s) : s[i] = "/"}
      i  == CHOOSE k \in at : \A j \in at : k <= j
  IN  IF at = {} THEN <<s>>
      ELSE <<SubSeq(s, 1, i - 1)>> \o Split(SubSeq(s, i + 1, Len(s)))

\* the observation date of a catalogue object
KeyDate(o) ==
  LET p == Split(o.key) IN Date(StrToInt(p[3]), StrToInt(p[4]), StrToInt(p[5]))

\* the objects of product type pT and tile dated within [a, b]
InWindow(b, pT, tile, from, to) ==
  {o \in b : /\ Split(o.key)[1] = pT /\ Split(o.key)[2] = tile
             /\ DateLeq(from, KeyDate(o)) /\ DateLeq(KeyDate(o), to)}

\* the product directory of an object: its key without the last segment
ProductDir(o) == JoinSlash(SubSeq(Split(o.key), 1, Len(Split(o.key)) - 1))

RECURSIVE SumSizes(_)
SumSizes(objs) ==
  IF objs = {} THEN 0
  ELSE LET o == CHOOSE x \in objs : TRUE IN o.size + SumSizes(objs \ {o})

Last(s) == s[Len(s)]

\* build_query has accepted the parameters and execute_request has run
Executed == request_params.end_date # None /\ pc # "built"

StartDate == strptime(request_params.start_date[1]).date

EndDate == strptime(request_params.end_date[1]).date

\* execute_request ran to its end and wrote the query file
QueryWritten == Executed /\ query_file = "query_file.txt"

\* download() has been entered
DownloadEntered ==
  /\ mode \in {"query_and_download", "download"}
  /\ query_file # "None"
  /\ pc \in {"downloading", "exited"}

\* the lines of the query file that are not blank, stripped
ProductLines ==
  SelectSeq([i \in 1..Len(disk.lines) |-> strip(disk.lines[i])], LAMBDA x : x # <<>>)

(***************************************************************************)
(* C1.  For every product type, tile and window startDate <= endDate, what *)
(* execute_request collects for the pair is exactly the product            *)
(* directories of the objects dated within [startDate, endDate], both ends *)
(* included.  It fails on the code: with endDate = 9999-12-31 the end      *)
(* marker overflows and nothing is collected (see C6), and a start year    *)
(* below 1000 is written without padding in the marker.                    *)
(***************************************************************************)
C1_DateBoundedExact ==
  Executed =>
    /\ QueryWritten
    /\ Len(total.turns) = Len(request_params.productType[1]) * Len(request_params.tiles[1])
    /\ \A k \in 1..Len(total.turns) :
         Range(total.turns[k].list_products) =
           {ProductDir(o) : o \in InWindow(Bucket, total.turns[k].pT, total.turns[k].tile,
                                           StartDate, EndDate)}

(***************************************************************************)
(* C2.  A product whose download meets 503 on attempts 1 and 2 and         *)
(* succeeds on attempt 3 counts as downloaded, the run goes on and the     *)
(* exit status is not altered.  It fails on the code: the first 503 ends   *)
(* the run with an UnboundLocalError raised in the finally block.          *)
(***************************************************************************)
C2_TransientRetried ==
  /\ hist \in {<<"503">>, <<"503", "503">>} =>
       pc = "downloading" /\ attempt = Len(hist) + 1
  /\ hist = <<"503", "503", "none">> =>
       /\ idx > 1 /\ product_list[idx - 1] = Last(dlLog)
       /\ pc = "downloading" \/ exitStatus = 0

(***************************************************************************)
(* C3.  A listing or transfer that fails with access-denied (403) ends the *)
(* run with exit status 78, one that fails with not-found (404) with 12.   *)
(* It fails on the code: both end the run with status 1.                   *)
(***************************************************************************)
C3_DeniedAndNotFoundStatus ==
  (pc = "exited" /\ DownloadEntered /\ hist # <<>>) =>
    /\ Last(hist) = "403" => exitStatus = 78
    /\ Last(hist) = "404" => exitStatus = 12

(***************************************************************************)
(* C4.  After an endpoint-connectivity failure the product is attempted    *)
(* again, up to 3 attempts in all; after not-found, access-denied or an    *)
(* unexpected error it is not attempted again.  It fails on the code: a    *)
(* connectivity failure is never followed by a second attempt.             *)
(***************************************************************************)
C4_ConnectivityRetried ==
  /\ Len(hist) <= Tries
  /\ (hist # <<>> /\ Last(hist) = "EndpointConnectionError" /\ Len(hist) < Tries) =>
       pc = "downloading" /\ attempt = Len(hist) + 1
  /\ \A i \in 1..(Len(hist) - 1) : hist[i] \notin {"404", "403", "500", "FileNotFoundError"}

(***************************************************************************)
(* C5.  download() on a query file of more than 500 product lines fails    *)
(* the run before anything is listed or transferred; with 500 or fewer it  *)
(* goes on to the products, attempting them in the order of the file, all  *)
(* of them when the run ends normally.                                     *)
(***************************************************************************)
C5_ThresholdAtDownload ==
  (DownloadEntered /\ disk.readable) =>
    LET lines == ProductLines
    IN  IF Len(lines) > DOWNLOAD_THRESHOLD
        THEN /\ pc = "exited" /\ exitStatus # 0
             /\ dlLog = <<>> /\ transferred = {}
        ELSE /\ exitCause # "Nb of products above the download threshold"
             /\ Len(dlLog) <= Len(lines)
             /\ dlLog = SubSeq(lines, 1, Len(dlLog))
             /\ pc = "downloading" => idx \in {Len(dlLog), Len(dlLog) + 1}
             /\ (pc = "exited" /\ exitStatus = 0) => Len(dlLog) = Len(lines)

\* a file of 501 product lines has been refused
C5_Witness ==
  /\ DownloadEntered
  /\ Len(ProductLines) = DOWNLOAD_THRESHOLD + 1
  /\ pc = "exited" /\ dlLog = <<>>

(***************************************************************************)
(* C6.  With endDate = 9999-12-31 execute_request does not fail on the     *)
(* day after endDate and finds every object of the pair dated on or after  *)
(* startDate.  It fails on the code: end_date + timedelta(days=1) raises   *)
(* OverflowError.                                                          *)
(***************************************************************************)
C6_MaxEndDateOpenEnded ==
  (Executed /\ EndDate = MaxDate) =>
    /\ QueryWritten
    /\ exitCause # "OverflowError"
    /\ \A k \in 1..Len(total.turns) :
         Range(total.turns[k].list_products) =
           {ProductDir(o) : o \in InWindow(Bucket, total.turns[k].pT, total.turns[k].tile,
                                           StartDate, MaxDate)}

(***************************************************************************)
(* C7.  For all dates a <= b < c and every pair of the request, what is    *)
(* listed for [a, b] and for [b+1, c] is disjoint and together is what is  *)
(* listed for [a, c].  It fails on the code: with c = 9999-12-31 the       *)
(* windows ending at c end in OverflowError (see C6), and with a in a year *)
(* below 1000 the windows starting at a list nothing.                      *)
(***************************************************************************)
WindowDates ==
  LET given == {strptime(t).date : t \in {x \in DateTexts : strptime(x).err = "none"}}
  IN  given \cup {PlusOneDay(d).date : d \in given \ {MaxDate}}

\* execute_request for one pair and the window [from, to]
Listed(pT, tile, from, to) == execute_request(Bucket, <<pT>>, <<tile>>, from, to)

C7_ConsecutiveWindows ==
  pc = "built" =>
    \A pT \in Range(request_params.productType[1]), tile \in Range(request_params.tiles[1]) :
      \A a, b, c \in WindowDates :
        (DateLeq(a, b) /\ DateLeq(b, c) /\ b # c) =>
          LET first  == Listed(pT, tile, a, b)
              second == Listed(pT, tile, PlusOneDay(b).date, c)
              whole  == Listed(pT, tile, a, c)
          IN  /\ first.err = "none" /\ second.err = "none" /\ whole.err = "none"
              /\ Range(first.products) \cap Range(second.products) = {}
              /\ Range(first.products) \cup Range(second.products) = Range(whole.products)

(***************************************************************************)
(* C8.  Whatever product types and tiles are requested, repeated or not,   *)
(* the product directories written to the query file are pairwise          *)
(* distinct and the byte total counts every matching object once.  It      *)
(* fails on the code: a product type given twice is listed twice.          *)
(***************************************************************************)
C8_DistinctProducts ==
  QueryWritten =>
    /\ \A i, j \in 1..Len(disk.lines) : disk.lines[i] = disk.lines[j] => i = j
    /\ \A i, j \in 1..Len(total.products) : total.products[i] = total.products[j] => i = j
    /\ total.size = SumSizes(UNION {Range(total.turns[k].contents) : k \in 1..Len(total.turns)})

(***************************************************************************)
(* C9.  When the area of interest resolves to no tile, build_query ends    *)
(* the process with the validation status before any catalogue listing is  *)
(* issued, and no query file is written.                                   *)
(***************************************************************************)
C9_EmptyTilesBeforeListing ==
  request_params.tiles = Some(<<>>) =>
    /\ pc = "exited"
    /\ exitStatus = -2
    /\ exitCause = "No tiles were identified"
    /\ listCalls = 0
    /\ query_file = "None"
    /\ disk = NoFile

\* a geometry that meets no tile has ended the run
C9_Witness ==
  /\ request_params.tiles = Some(<<>>)
  /\ pc = "exited"
  /\ listCalls = 0

(***************************************************************************)
(* C10.  Every input-validation failure ends the process with status -2,   *)
(* never with 1.  It fails on the code: sys.exit("-2") is given a string,  *)
(* which is printed and makes the status 1.                                *)
(***************************************************************************)
ValidationCauses ==
  {"-productType does not exist", "-dateStart or -dateEnd: bad format",
   "-dateStart is after dateEnd", "-tile: incorrect tile format", "-epsg", "-wkt",
   "-wkt: only Polygon or MultiPolygon", "mgrs file", "-layer",
   "No tiles were identified", "No query_file was provided"}

C10_ValidationStatus ==
  (pc = "exited" /\ exitCause \in ValidationCauses) => exitStatus = -2


(***************************************************************************)
(* C11 as stated: for every text the tile-format pattern accepts (two      *)
(* digits and three capitals, optionally prefixed with T, 5 or 6           *)
(* characters), resolving the singleton tile set gives the set holding     *)
(* that same text in uppercase, and resolving the result again gives it    *)
(* unchanged.                                                              *)
(***************************************************************************)
\* the text matches T?\d{2}[A-Z]{3} as a whole
AcceptedTile(t) ==
  /\ Len(t) \in {5, 6}
  /\ Len(t) = 6 => t[1] = "T"
  /\ LET id == SubSeq(t, Len(t) - 4, Len(t))
     IN  /\ id[1] \in Digits /\ id[2] \in Digits
         /\ id[3] \in UpperLetters /\ id[4] \in UpperLetters /\ id[5] \in UpperLetters

C11_ResolveIdempotent ==
  AcceptedTile(tile_text) =>
    /\ pc # "exited"
    /\ Len(resolutions) >= 1 => resolutions[1] = <<Upper(tile_text)>>
    /\ Len(resolutions) = 2 => resolutions[2] = resolutions[1]

(***************************************************************************)
(* C11, amended: for every accepted text, resolving the singleton tile     *)
(* set gives the set holding its five-character identifier, the T prefix   *)
(* dropped, in uppercase; resolving that result again gives it unchanged,  *)
(* and neither resolution ends the process.                                *)
(***************************************************************************)
C11_ResolveIdempotentWithoutT ==
  AcceptedTile(tile_text) =>
    /\ pc # "exited"
    /\ Len(resolutions) >= 1 =>
         resolutions[1] = <<Upper(SubSeq(tile_text, Len(tile_text) - 4, Len(tile_text)))>>
    /\ Len(resolutions) = 2 => resolutions[2] = resolutions[1]

\* a text with the T prefix has been resolved twice
C11_Witness ==
  /\ AcceptedTile(tile_text)
  /\ Len(tile_text) = 6
  /\ Len(resolutions) = 2


(***************************************************************************)
(* C12.  For every query result, the query file execute_request writes,    *)
(* read back as download() reads it, gives the same set of product         *)
(* directories, whatever the order; an empty result reads back as an       *)
(* empty product list.  The first conjunct reads the file of any run that  *)
(* wrote it, the second is the product_list of download() in a             *)
(* -query_and_download run.                                                *)
(***************************************************************************)
C12_WriteReadRoundTrip ==
  QueryWritten =>
    /\ Range(read_product_list(disk.lines)) = Range(total.products)
    /\ total.products = <<>> => read_product_list(disk.lines) = <<>>
    /\ (mode = "query_and_download" /\ pc \in {"downloading", "exited"}) =>
         /\ Range(product_list) = Range(total.products)
         /\ total.products = <<>> => product_list = <<>>

\* download() has read a query file of two different products or more
C12_Witness ==
  /\ QueryWritten
  /\ mode = "query_and_download"
  /\ pc = "downloading"
  /\ Cardinality(Range(total.products)) >= 2
  /\ Len(product_list) >= 2


(***************************************************************************)
(* C13.  For every product directory P read from the query file, every     *)
(* object a call download_from_s3(P) transfers belongs to P: its key       *)
(* without the last segment is P.  An object of another product whose      *)
(* directory name only begins with the characters of P is not transferred  *)
(* as part of P.  It fails on the code: the listing is filtered by         *)
(* Prefix = product_dir with no closing slash, so the objects of .../P10   *)
(* are listed, and transferred, with those of .../P1.                      *)
(***************************************************************************)
C13_TransfersBelongToProduct ==
  \A x \in transferred : ProductDir(x) = x.product_dir

=============================================================================
